---- MODULE Spec2Model ----
(***************************************************************************)
(* Model of the arrebol-pb-worker task lifecycle: Worker.ExecTask, the     *)
(* TaskExecutor (Execute, init, send, run, Track, getExitCodes) and the    *)
(* report routine (reportTask, reportReq).                                 *)
(*                                                                         *)
(* ExecTask runs Execute on the calling goroutine and reportTask on a      *)
(* second goroutine; the two meet on three channels of capacity 1.         *)
(* Execute has no result value, so the `err` ExecTask tests after the call *)
(* is nil and the log.Fatal behind it is not taken.  The channel ExecTask  *)
(* hands to Execute as statesChanges is spawnWarner, so the value the      *)
(* report routine takes from channels[2] is the terminal state.            *)
(***************************************************************************)
EXTENDS Integers, Sequences, FiniteSets, TLC

\* ---------------------------------------------------------------- bounds
MaxCmds == 2
MaxInterval == 2
MaxEcWrites == 2
MaxReports == 2
MaxTasks == 2
MaxRequests == 2

\* ------------------------------------------------------ program constants
TaskPending == 0
TaskRunning == 1
TaskFinished == 2
TaskFailed == 3

ChanCap == 1

\* The bytes of the exit-code file are modelled by their code points.
CR == 13
LF == 10
Digit0 == 48
Digit9 == 57

\* The status reportReq expects, and one of the others.
StatusOK == 200
StatusError == 500

Min(a, b) == IF a < b THEN a ELSE b

\* ------------------------------------------------- exit-code file parsing
isNotUTFNumber(r) == IF r >= Digit0 /\ r <= Digit9 THEN FALSE ELSE TRUE

RECURSIVE TrimLeft(_)
TrimLeft(s) ==
  IF s = <<>> THEN <<>>
  ELSE IF isNotUTFNumber(Head(s)) THEN TrimLeft(Tail(s)) ELSE s

RECURSIVE TrimRight(_)
TrimRight(s) ==
  IF s = <<>> THEN <<>>
  ELSE IF isNotUTFNumber(s[Len(s)]) THEN TrimRight(SubSeq(s, 1, Len(s) - 1)) ELSE s

\* bytes.TrimFunc(dat, isNotUTFNumber): strips the leading and the trailing
\* bytes that are not digits, and nothing in between.
TrimFunc(dat) == TrimRight(TrimLeft(dat))

\* strings.Split(content, "\r\n"): the pieces between the separators; an
\* empty content gives one empty piece.
RECURSIVE SplitFrom(_, _)
SplitFrom(s, cur) ==
  IF s = <<>> THEN <<cur>>
  ELSE IF Len(s) >= 2 /\ s[1] = CR /\ s[2] = LF
       THEN <<cur>> \o SplitFrom(SubSeq(s, 3, Len(s)), <<>>)
       ELSE SplitFrom(Tail(s), Append(cur, Head(s)))

SplitCRLF(content) == SplitFrom(content, <<>>)

\* strconv.Atoi over the modelled alphabet (no sign characters): succeeds on
\* a non-empty run of digits.
AtoiOk(s) == s # <<>> /\ \A i \in 1..Len(s) : ~isNotUTFNumber(s[i])

RECURSIVE AtoiVal(_)
AtoiVal(s) ==
  IF s = <<>> THEN 0
  ELSE AtoiVal(SubSeq(s, 1, Len(s) - 1)) * 10 + (s[Len(s)] - Digit0)

\* int8(x)
Int8(x) == ((x + 128) % 256) - 128

RECURSIVE toIntArray(_)
toIntArray(strs) ==
  IF strs = <<>> THEN <<>>
  ELSE IF AtoiOk(Head(strs))
       THEN <<Int8(AtoiVal(Head(strs)))>> \o toIntArray(Tail(strs))
       ELSE toIntArray(Tail(strs))

\* getExitCodes after a successful utils.Read of the bytes dat.
getExitCodes(dat) == toIntArray(SplitCRLF(TrimFunc(dat)))

\* What the in-container script and the task's own commands, which run in
\* the same container, append to /arrebol/task-id.ts.ec: a complete entry
\* "0\r\n", a digit "1" whose CRLF is not written yet, or a bare line feed.
EcChunks == { <<Digit0, CR, LF>>, <<Digit0 + 1>>, <<LF>> }

\* ------------------------------------------------ Worker records and JSON
\* Strings are sequences of one-character strings.
ZeroWorker == [Vcpu |-> 0, Ram |-> 0, Token |-> <<>>, Id |-> <<>>, QueueId |-> <<>>]

WorkerFields == <<"Vcpu", "Ram", "Token", "Id", "QueueId">>
NumberFields == {"Vcpu", "Ram"}

\* A JSON document is the sequence of the members of an object; a member
\* holds a number, or a string in its escaped form.  Garbage stands for
\* bytes that are no JSON.
Garbage == << [key |-> "", kind |-> "invalid", num |-> 0, text |-> <<>>] >>
NumMember(k, n) == [key |-> k, kind |-> "number", num |-> n, text |-> <<>>]
StrMember(k, t) == [key |-> k, kind |-> "string", num |-> 0, text |-> t]

\* encoding/json writes a string with the quote and the backslash escaped
\* by a backslash, and '<' as the six characters \u003c.
EscapeChar(c) ==
  CASE c = "\"" -> <<"\\", "\"">>
    [] c = "\\" -> <<"\\", "\\">>
    [] c = "<" -> <<"\\", "u", "0", "0", "3", "c">>
    [] OTHER -> <<c>>

RECURSIVE Escape(_)
Escape(str) == IF str = <<>> THEN <<>> ELSE EscapeChar(Head(str)) \o Escape(Tail(str))

\* The decoder's reading of an escaped string.
RECURSIVE Unescape(_)
Unescape(t) ==
  IF t = <<>> THEN <<>>
  ELSE IF Head(t) # "\\" THEN <<Head(t)>> \o Unescape(Tail(t))
  ELSE IF Len(t) >= 6 /\ SubSeq(t, 2, 6) = <<"u", "0", "0", "3", "c">>
       THEN <<"<">> \o Unescape(SubSeq(t, 7, Len(t)))
  ELSE IF Len(t) >= 2 THEN <<t[2]>> \o Unescape(SubSeq(t, 3, Len(t)))
  ELSE <<>>

\* json.Marshal of a Worker: the exported fields in declaration order, under
\* their own names (the struct has no tags).
Marshal(w) ==
  << NumMember("Vcpu", w.Vcpu), NumMember("Ram", w.Ram),
     StrMember("Token", Escape(w.Token)), StrMember("Id", Escape(w.Id)),
     StrMember("QueueId", Escape(w.QueueId)) >>

\* The struct field a key of the document decodes into: the field of that
\* name, compared without regard to case; "" for a key that names none.
FieldOf(key) ==
  CASE key \in {"Vcpu", "vcpu"} -> "Vcpu"
    [] key \in {"Ram", "ram"} -> "Ram"
    [] key \in {"Token", "token"} -> "Token"
    [] key \in {"Id", "ID", "id"} -> "Id"
    [] key \in {"QueueId", "QueueID", "queueid"} -> "QueueId"
    [] OTHER -> ""

\* Mutation of DecodeMember: a string is stored as written, not unescaped.
DecodeMember_Raw(w, m) ==
  LET f == FieldOf(m.key) IN
  IF f = "" THEN w
  ELSE IF f \in NumberFields
       THEN (IF m.kind = "number" THEN [w EXCEPT ![f] = m.num] ELSE w)
       ELSE (IF m.kind = "string" THEN [w EXCEPT ![f] = m.text] ELSE w)

\* One member decoded into the record: a number into a float32 field, a
\* string into a string field; a member of the other kind leaves the field
\* alone (the decoder reports a type error and goes on).
DecodeMember(w, m) ==
  LET f == FieldOf(m.key) IN
  IF f = "" THEN w
  ELSE IF f \in NumberFields
       THEN (IF m.kind = "number" THEN [w EXCEPT ![f] = m.num] ELSE w)
       ELSE (IF m.kind = "string" THEN [w EXCEPT ![f] = Unescape(m.text)] ELSE w)

RECURSIVE DecodeMembers(_, _)
DecodeMembers(w, doc) ==
  IF doc = <<>> THEN w ELSE DecodeMembers(DecodeMember(w, Head(doc)), Tail(doc))

\* ParseWorkerConfiguration: decode into Worker{}; an error of the decoder
\* is logged and the record is returned as far as it was filled.
ParseWorkerConfiguration(doc) ==
  IF doc = Garbage THEN ZeroWorker ELSE DecodeMembers(ZeroWorker, doc)

\* json.Unmarshal into map[string]string: fails on a document that is not an
\* object of strings.
StringMapOk(doc) == doc # Garbage /\ \A i \in 1..Len(doc) : doc[i].kind = "string"

HasKey(doc, k) == \E i \in 1..Len(doc) : doc[i].key = k

\* The value of key k, the last member of that name winning.
ValueOf(doc, k) ==
  LET last == CHOOSE i \in 1..Len(doc) :
                /\ doc[i].key = k
                /\ \A j \in (i + 1)..Len(doc) : doc[j].key # k
  IN Unescape(doc[last].text)

\* ------------------------------------------------------ tokens and %v
DigitChars == <<"0", "1", "2", "3", "4", "5", "6", "7", "8", "9">>

\* The decimal digits of a natural number.
RECURSIVE Decimal(_)
Decimal(n) ==
  IF n < 10 THEN <<DigitChars[n + 1]>>
  ELSE Decimal(n \div 10) \o <<DigitChars[(n % 10) + 1]>>

RECURSIVE StripZeros(_)
StripZeros(d) ==
  IF Len(d) > 1 /\ d[Len(d)] = "0" THEN StripZeros(SubSeq(d, 1, Len(d) - 1)) ELSE d

\* fmt.Sprintf("%v", x) of a float64 holding the natural number n (the type
\* a JSON number of the claims decodes to): %g with the shortest digits,
\* which is the plain decimal up to 6 digits and the exponent form from
\* exponent 6 on ("1.2e+06").
ExpThreshold == 6

FormatV(n) ==
  LET d == Decimal(n)
      e == Len(d) - 1
      m == StripZeros(d)
  IN IF e < ExpThreshold THEN d
     ELSE <<Head(m)>> \o (IF Len(m) > 1 THEN <<".">> \o Tail(m) ELSE <<>>)
          \o <<"e", "+">> \o (IF e < 10 THEN <<"0">> ELSE <<>>) \o Decimal(e)

\* The tokens of the model: "t" stands for a string that is no JWT (the
\* test's "test-token"), "x" for a JWT whose signature does not verify, "n"
\* for a valid JWT without a QueueId claim, and "q" followed by digits for a
\* valid JWT whose QueueId claim is that number.
TestToken == <<"t">>
BadSigToken == <<"x">>
NoQueueToken == <<"n">>
QueueToken(n) == <<"q">> \o Decimal(n)

QueueIds == {7, 192038, 1200000}

Tokens == {TestToken, BadSigToken, NoQueueToken} \cup { QueueToken(n) : n \in QueueIds }

\* jwt.Parse with the server's key.
JwtParse(tok) ==
  IF tok = TestToken THEN [err |-> TRUE, valid |-> FALSE, claims |-> {}]
  ELSE IF tok = BadSigToken THEN [err |-> TRUE, valid |-> FALSE, claims |-> {}]
  ELSE IF tok = NoQueueToken THEN [err |-> FALSE, valid |-> TRUE, claims |-> {}]
  ELSE [err |-> FALSE, valid |-> TRUE,
        claims |-> { n \in QueueIds : QueueToken(n) = tok }]

\* parseToken: the claims (here the set holding the QueueId claim, if any)
\* or an error.
parseToken(tokenStr) ==
  LET token == JwtParse(tokenStr) IN
  IF token.err THEN [err |-> TRUE, claims |-> {}]
  ELSE IF token.valid THEN [err |-> FALSE, claims |-> token.claims]
  ELSE [err |-> TRUE, claims |-> {}]

StatusCreated == 201
TokenKey == "arrebol-worker-token"

\* Mutation of HandleJoinResponse: w.Token is assigned as soon as the token
\* is read from the body, before it is parsed.
HandleJoinResponse_TokenFirst(response, w) ==
  IF response.StatusCode # StatusCreated THEN [fatal |-> TRUE, w |-> w]
  ELSE IF ~StringMapOk(response.Body) THEN [fatal |-> TRUE, w |-> w]
  ELSE IF ~HasKey(response.Body, TokenKey) THEN [fatal |-> TRUE, w |-> w]
  ELSE LET token == ValueOf(response.Body, TokenKey)
           w1 == [w EXCEPT !.Token = token]
           parsed == parseToken(token)
       IN IF parsed.err THEN [fatal |-> TRUE, w |-> w1]
          ELSE IF parsed.claims = {} THEN [fatal |-> TRUE, w |-> w1]
          ELSE [fatal |-> FALSE,
                w |-> [w1 EXCEPT !.QueueId = FormatV(CHOOSE n \in parsed.claims : TRUE)]]

\* HandleJoinResponse: every check that fails ends in log.Fatal; the two
\* assignments come last.
HandleJoinResponse(response, w) ==
  IF response.StatusCode # StatusCreated THEN [fatal |-> TRUE, w |-> w]
  ELSE IF ~StringMapOk(response.Body) THEN [fatal |-> TRUE, w |-> w]
  ELSE IF ~HasKey(response.Body, TokenKey) THEN [fatal |-> TRUE, w |-> w]
  ELSE LET token == ValueOf(response.Body, TokenKey)
           parsed == parseToken(token)
       IN IF parsed.err THEN [fatal |-> TRUE, w |-> w]
          ELSE IF parsed.claims = {} THEN [fatal |-> TRUE, w |-> w]
          ELSE [fatal |-> FALSE,
                w |-> [w EXCEPT !.Token = token,
                                !.QueueId = FormatV(CHOOSE n \in parsed.claims : TRUE)]]

\* ------------------------------------------------------------------ state
VARIABLES
  pcMain,          \* position of the goroutine that runs ExecTask/Execute
  pcReport,        \* position of the reportTask goroutine
  task,            \* the *Task shared by both goroutines
  tasksStarted,    \* number of ExecTask calls so far
  container,       \* the driver's container: none/created/running/stopped/removed
  Cid,             \* TaskExecutor.Cid ("" until init stores it)
  ecExists,        \* /arrebol/task-id.ts.ec exists in the container
  ecFile,          \* its bytes
  ecWrites,        \* number of chunks appended to it
  endingChannel,   \* channels[0]
  waitChannel,     \* channels[1]
  spawnWarner,     \* channels[2], Execute's statesChanges
  executedCmdsLen, \* reportTask's local: Track's count
  trackErr,        \* reportTask's local: Track's err # nil
  elapsed,         \* time.Now().Unix() - startTime, saturated at MaxInterval
  currentTime,     \* reportTask's local currentTime, relative to startTime
  emitted,         \* history: the states Execute sent on statesChanges
  reports,         \* history: the task bodies reportReq handed to utils.Put
  calls,           \* history: the driver calls of the current Execute
  crashed,         \* the process died in a runtime panic
  worker,          \* the Worker record (Vcpu, Ram, Token, Id, QueueId)
  fatal,           \* log.Fatal ended the process
  joinResp,        \* the response the last Join handed to HandleJoinResponse
  requests,        \* history: the task requests GetTask handed to utils.Get
  getResult,       \* what the last GetTask call returned
  cfgIn,           \* the record given to json.Marshal
  cfgOut           \* what ParseWorkerConfiguration made of its serialization

vars == << pcMain, pcReport, task, tasksStarted, container, Cid, ecExists,
           ecFile, ecWrites, endingChannel, waitChannel, spawnWarner,
           executedCmdsLen, trackErr, elapsed, currentTime, emitted, reports,
           calls, crashed, worker, fatal, joinResp, requests, getResult, cfgIn,
           cfgOut >>

execVars == << container, Cid, ecExists, ecFile, ecWrites >>
agentVars == << worker, fatal, joinResp, requests, getResult, cfgIn, cfgOut >>
chanVars == << endingChannel, waitChannel, spawnWarner >>
reportVars == << pcReport, executedCmdsLen, trackErr, elapsed, currentTime, reports >>

NoTask == [Commands |-> <<>>, ReportInterval |-> 1, State |-> TaskPending, Progress |-> 0]

\* The tasks a caller hands to ExecTask: decoded from the dispatcher's JSON
\* (State and Progress at their zero values) or built as main.go does
\* (State TaskRunning).
Tasks ==
  { [Commands |-> [i \in 1..n |-> "cmd"], ReportInterval |-> ri, State |-> st, Progress |-> 0] :
      n \in 0..MaxCmds, ri \in 1..MaxInterval, st \in {TaskPending, TaskRunning} }

\* No task yet: the state of the lifecycle before the first ExecTask.
LifecycleIdle ==
  /\ pcMain = "idle"
  /\ pcReport = "none"
  /\ task = NoTask
  /\ tasksStarted = 0
  /\ container = "none"
  /\ Cid = ""
  /\ ecExists = FALSE
  /\ ecFile = <<>>
  /\ ecWrites = 0
  /\ endingChannel = <<>>
  /\ waitChannel = <<>>
  /\ spawnWarner = <<>>
  /\ executedCmdsLen = 0
  /\ trackErr = FALSE
  /\ elapsed = 0
  /\ currentTime = 0
  /\ emitted = <<>>
  /\ reports = <<>>
  /\ calls = <<>>
  /\ crashed = FALSE

\* No join and no fetch yet.
AgentIdle ==
  /\ fatal = FALSE
  /\ joinResp = <<>>
  /\ requests = <<>>
  /\ getResult = <<>>

Init ==
  /\ LifecycleIdle
  /\ AgentIdle
  /\ worker = ZeroWorker
  /\ cfgIn = <<>>
  /\ cfgOut = <<>>

\* ------------------------------------------------------- ExecTask, Execute
\* ExecTask up to the call of Execute: a fresh executor, three fresh
\* channels, the report goroutine started.
ExecTask ==
  /\ ~crashed
  /\ pcMain \in {"idle", "returned"}
  /\ tasksStarted < MaxTasks
  /\ \E t \in Tasks : task' = t
  /\ tasksStarted' = tasksStarted + 1
  /\ container' = "none"
  /\ Cid' = ""
  /\ ecExists' = FALSE
  /\ ecFile' = <<>>
  /\ ecWrites' = 0
  /\ endingChannel' = <<>>
  /\ waitChannel' = <<>>
  /\ spawnWarner' = <<>>
  /\ executedCmdsLen' = 0
  /\ trackErr' = FALSE
  /\ elapsed' = 0
  /\ currentTime' = 0
  /\ emitted' = <<>>
  /\ reports' = <<>>
  /\ pcReport' = "waitSpawn"
  /\ pcMain' = "init_CheckImage"
  /\ calls' = <<>>
  /\ UNCHANGED crashed
  /\ UNCHANGED agentVars

\* statesChanges <- st; return   (Execute's caller goes on to line 195)
EmitAndReturn(st) ==
  /\ Len(spawnWarner) < ChanCap
  /\ spawnWarner' = Append(spawnWarner, st)
  /\ emitted' = Append(emitted, st)
  /\ pcMain' = "sendEnding"

\* A step of Execute that neither emits nor touches the channels.
ExecStep(next) ==
  /\ pcMain' = next
  /\ UNCHANGED << spawnWarner, emitted >>

ExecFrame == UNCHANGED << pcReport, task, tasksStarted, endingChannel, waitChannel,
                          executedCmdsLen, trackErr, elapsed, currentTime, reports, crashed,
                          agentVars >>

\* One driver call of Execute, with its outcome, added to the call history.
Called(op, ok) == calls' = Append(calls, [op |-> op, ok |-> ok])

\* init: utils.CheckImage
InitCheckImage ==
  /\ ~crashed /\ pcMain = "init_CheckImage"
  /\ \E r \in {"err", "exists", "missing"} :
       /\ Called("CheckImage", r # "err")
       /\ CASE r = "err" -> EmitAndReturn(TaskFailed)
            [] r = "exists" -> ExecStep("init_Create")
            [] r = "missing" -> ExecStep("init_Pull")
  /\ UNCHANGED execVars
  /\ ExecFrame

\* init: utils.Pull
InitPull ==
  /\ ~crashed /\ pcMain = "init_Pull"
  /\ \E ok \in BOOLEAN :
       /\ Called("Pull", ok)
       /\ IF ok THEN ExecStep("init_Create") ELSE EmitAndReturn(TaskFailed)
  /\ UNCHANGED execVars
  /\ ExecFrame

\* init: utils.CreateContainer
InitCreate ==
  /\ ~crashed /\ pcMain = "init_Create"
  /\ \E ok \in BOOLEAN :
       /\ Called("CreateContainer", ok)
       /\ IF ok
          THEN /\ ExecStep("init_Start")
               /\ container' = "created"
          ELSE /\ EmitAndReturn(TaskFailed)
               /\ UNCHANGED container
  /\ UNCHANGED << Cid, ecExists, ecFile, ecWrites >>
  /\ ExecFrame

\* init: utils.StartContainer
InitStart ==
  /\ ~crashed /\ pcMain = "init_Start"
  /\ \E ok \in BOOLEAN :
       /\ Called("StartContainer", ok)
       /\ IF ok
          THEN /\ ExecStep("init_Mkdir")
               /\ container' = "running"
          ELSE /\ EmitAndReturn(TaskFailed)
               /\ UNCHANGED container
  /\ UNCHANGED << Cid, ecExists, ecFile, ecWrites >>
  /\ ExecFrame

\* init: utils.Exec "mkdir /arrebol"
InitMkdir ==
  /\ ~crashed /\ pcMain = "init_Mkdir"
  /\ \E ok \in BOOLEAN :
       /\ Called("Mkdir", ok)
       /\ IF ok THEN ExecStep("init_Copy") ELSE EmitAndReturn(TaskFailed)
  /\ UNCHANGED execVars
  /\ ExecFrame

\* init: utils.Copy; e.Cid = cid; return err
InitCopy ==
  /\ ~crashed /\ pcMain = "init_Copy"
  /\ Cid' = "cid"
  /\ \E ok \in BOOLEAN :
       /\ Called("Copy", ok)
       /\ IF ok THEN ExecStep("send") ELSE EmitAndReturn(TaskFailed)
  /\ UNCHANGED << container, ecExists, ecFile, ecWrites >>
  /\ ExecFrame

\* Mutation of ExecuteSend: the error of send is dropped and run follows.
ExecuteSend_IgnoreErr ==
  /\ ~crashed /\ pcMain = "send"
  /\ \E ok \in BOOLEAN :
       /\ Called("Write", ok)
       /\ ExecStep("run")
  /\ UNCHANGED execVars
  /\ ExecFrame

\* send: utils.Write of the command lines
ExecuteSend ==
  /\ ~crashed /\ pcMain = "send"
  /\ \E ok \in BOOLEAN :
       /\ Called("Write", ok)
       /\ IF ok THEN ExecStep("run") ELSE EmitAndReturn(TaskFailed)
  /\ UNCHANGED execVars
  /\ ExecFrame

\* While utils.Exec of the script blocks in run, the container appends to
\* the exit-code file.
ScriptAppend ==
  /\ ~crashed /\ pcMain = "run"
  /\ ecWrites < MaxEcWrites
  /\ \E ch \in EcChunks : ecFile' = ecFile \o ch
  /\ ecExists' = TRUE
  /\ ecWrites' = ecWrites + 1
  /\ UNCHANGED << pcMain, spawnWarner, emitted, container, Cid, calls >>
  /\ ExecFrame

\* Mutation of ExecuteRun: the return after the failure branch is missing.
ExecuteRun_NoReturn ==
  /\ ~crashed /\ pcMain = "run"
  /\ \E ok \in BOOLEAN :
       /\ Called("Run", ok)
       /\ IF ok
          THEN ExecStep("stop")
          ELSE /\ Len(spawnWarner) < ChanCap
               /\ spawnWarner' = Append(spawnWarner, TaskFailed)
               /\ emitted' = Append(emitted, TaskFailed)
               /\ pcMain' = "stop"
  /\ UNCHANGED execVars
  /\ ExecFrame

\* run: utils.Exec of the task script returns
ExecuteRun ==
  /\ ~crashed /\ pcMain = "run"
  /\ \E ok \in BOOLEAN :
       /\ Called("Run", ok)
       /\ IF ok THEN ExecStep("stop") ELSE EmitAndReturn(TaskFailed)
  /\ UNCHANGED execVars
  /\ ExecFrame

\* utils.StopContainer, best effort
ExecuteStop ==
  /\ ~crashed /\ pcMain = "stop"
  /\ \E ok \in BOOLEAN :
       /\ Called("StopContainer", ok)
       /\ container' = IF ok THEN "stopped" ELSE container
  /\ ExecStep("remove")
  /\ UNCHANGED << Cid, ecExists, ecFile, ecWrites >>
  /\ ExecFrame

\* utils.RemoveContainer, best effort; statesChanges <- TaskFinished
ExecuteRemove ==
  /\ ~crashed /\ pcMain = "remove"
  /\ \E ok \in BOOLEAN :
       /\ Called("RemoveContainer", ok)
       /\ container' = IF ok THEN "removed" ELSE container
  /\ EmitAndReturn(TaskFinished)
  /\ UNCHANGED << Cid, ecExists, ecFile, ecWrites >>
  /\ ExecFrame

\* endingChannel <- "done"
SendEnding ==
  /\ ~crashed /\ pcMain = "sendEnding"
  /\ Len(endingChannel) < ChanCap
  /\ endingChannel' = Append(endingChannel, "done")
  /\ pcMain' = "waitReport"
  /\ UNCHANGED << task, tasksStarted, waitChannel, spawnWarner, emitted, crashed >>
  /\ UNCHANGED execVars
  /\ UNCHANGED reportVars
  /\ UNCHANGED << calls, agentVars >>

\* Mutation of WaitReport: ExecTask returns without the receive from
\* waitChannel.
WaitReport_NoWait ==
  /\ ~crashed /\ pcMain = "waitReport"
  /\ waitChannel' = IF waitChannel # <<>> THEN Tail(waitChannel) ELSE waitChannel
  /\ pcMain' = "returned"
  /\ UNCHANGED << task, tasksStarted, endingChannel, spawnWarner, emitted, crashed >>
  /\ UNCHANGED execVars
  /\ UNCHANGED reportVars
  /\ UNCHANGED << calls, agentVars >>

\* <-waitChannel; ExecTask returns
WaitReport ==
  /\ ~crashed /\ pcMain = "waitReport"
  /\ waitChannel # <<>>
  /\ waitChannel' = Tail(waitChannel)
  /\ pcMain' = "returned"
  /\ UNCHANGED << task, tasksStarted, endingChannel, spawnWarner, emitted, crashed >>
  /\ UNCHANGED execVars
  /\ UNCHANGED reportVars
  /\ UNCHANGED << calls, agentVars >>

\* ----------------------------------------------------- Track, reportTask
\* The driver reaches the executor's container: e.Cid names a running one.
DriverReachable == container = "running" /\ Cid # ""

\* Track's results: (0, err) when the exit-code file cannot be read, else
\* the number of parsed exit codes and nil.
Track(readOk) ==
  IF readOk THEN [count |-> Len(getExitCodes(ecFile)), err |-> FALSE]
  ELSE [count |-> 0, err |-> TRUE]

\* executedCmdsLen * 100 / len(task.Commands), n # 0
ProgressOf(c, n) == (c * 100) \div n

\* What utils.Put gives reportReq: an error and no response, or a response.
PutResults ==
  { [err |-> TRUE, status |-> 0],
    [err |-> FALSE, status |-> StatusOK],
    [err |-> FALSE, status |-> StatusError] }

\* reportReq's condition err != nil || resp.StatusCode != 200
ReportReqLogs(put) == put.err \/ put.status # StatusOK

\* The logging branch evaluates err.Error(); with a nil err that is a nil
\* dereference.
ReportReqPanics(put) == ReportReqLogs(put) /\ ~put.err

\* The body reportReq marshals: the task as it stands.
ReportBody(terminal, put) ==
  [State |-> task.State, Progress |-> task.Progress, terminal |-> terminal,
   err |-> put.err, status |-> put.status]

\* <-channels[2]; startTime := time.Now().Unix()
ReportWaitSpawn ==
  /\ ~crashed /\ pcReport = "waitSpawn"
  /\ spawnWarner # <<>>
  /\ spawnWarner' = Tail(spawnWarner)
  /\ elapsed' = 0
  /\ pcReport' = "select"
  /\ UNCHANGED << pcMain, task, tasksStarted, endingChannel, waitChannel,
                  executedCmdsLen, trackErr, currentTime, emitted, reports, crashed >>
  /\ UNCHANGED execVars
  /\ UNCHANGED << calls, agentVars >>

\* A second passes while the report routine is in its loop.
Tick ==
  /\ ~crashed /\ pcReport \in {"select", "progress", "report"}
  /\ elapsed < MaxInterval
  /\ elapsed' = elapsed + 1
  /\ UNCHANGED << pcMain, pcReport, task, tasksStarted, executedCmdsLen, trackErr,
                  currentTime, emitted, reports, crashed >>
  /\ UNCHANGED execVars
  /\ UNCHANGED chanVars
  /\ UNCHANGED << calls, agentVars >>

\* select, default branch: executedCmdsLen, err := executor.Track()
ReportDefault ==
  /\ ~crashed /\ pcReport = "select"
  /\ endingChannel = <<>>
  /\ Len(reports) < MaxReports
  /\ \E touchOk \in BOOLEAN, readOk \in BOOLEAN :
       /\ touchOk => DriverReachable
       /\ ecExists' = (ecExists \/ touchOk)
       /\ readOk => (DriverReachable /\ ecExists')
       /\ executedCmdsLen' = Track(readOk).count
       /\ trackErr' = Track(readOk).err
  /\ pcReport' = "progress"
  /\ UNCHANGED << pcMain, task, tasksStarted, container, Cid, ecFile, ecWrites,
                  elapsed, currentTime, emitted, reports, crashed >>
  /\ UNCHANGED chanVars
  /\ UNCHANGED << calls, agentVars >>

\* task.Progress = executedCmdsLen * 100 / len(task.Commands), a division
\* that panics on an empty command list; then the interval test.
ReportProgress ==
  /\ ~crashed /\ pcReport = "progress"
  /\ IF Len(task.Commands) = 0
     THEN /\ crashed' = TRUE
          /\ UNCHANGED << task, currentTime, pcReport >>
     ELSE /\ task' = [task EXCEPT !.Progress = ProgressOf(executedCmdsLen, Len(task.Commands))]
          /\ currentTime' = elapsed
          /\ pcReport' = IF currentTime' < task.ReportInterval THEN "sleep" ELSE "report"
          /\ UNCHANGED crashed
  /\ UNCHANGED << pcMain, tasksStarted, executedCmdsLen, trackErr, elapsed, emitted, reports >>
  /\ UNCHANGED execVars
  /\ UNCHANGED chanVars
  /\ UNCHANGED << calls, agentVars >>

\* time.Sleep(1 * time.Second); continue
ReportSleep ==
  /\ ~crashed /\ pcReport = "sleep"
  /\ elapsed' = Min(elapsed + 1, MaxInterval)
  /\ pcReport' = "select"
  /\ UNCHANGED << pcMain, task, tasksStarted, executedCmdsLen, trackErr,
                  currentTime, emitted, reports, crashed >>
  /\ UNCHANGED execVars
  /\ UNCHANGED chanVars
  /\ UNCHANGED << calls, agentVars >>

\* reportReq(w, task, serverEndPoint); startTime = currentTime
ReportPeriodic ==
  /\ ~crashed /\ pcReport = "report"
  /\ \E put \in PutResults :
       /\ reports' = Append(reports, ReportBody(FALSE, put))
       /\ IF ReportReqPanics(put)
          THEN /\ crashed' = TRUE
               /\ UNCHANGED << pcReport, elapsed >>
          ELSE /\ elapsed' = elapsed - currentTime
               /\ pcReport' = "select"
               /\ UNCHANGED crashed
  /\ UNCHANGED << pcMain, task, tasksStarted, executedCmdsLen, trackErr,
                  currentTime, emitted >>
  /\ UNCHANGED execVars
  /\ UNCHANGED chanVars
  /\ UNCHANGED << calls, agentVars >>

\* case <-channels[0]: task.Progress = 100
ReportDone ==
  /\ ~crashed /\ pcReport = "select"
  /\ endingChannel # <<>>
  /\ endingChannel' = Tail(endingChannel)
  /\ task' = [task EXCEPT !.Progress = 100]
  /\ pcReport' = "finalReport"
  /\ UNCHANGED << pcMain, tasksStarted, waitChannel, spawnWarner, executedCmdsLen,
                  trackErr, elapsed, currentTime, emitted, reports, crashed >>
  /\ UNCHANGED execVars
  /\ UNCHANGED << calls, agentVars >>

\* Mutation of ReportFinal: the return after channels[1] <- "done" is
\* missing, so the loop goes on.
ReportFinal_NoReturn ==
  /\ ~crashed /\ pcReport = "finalReport"
  /\ \E put \in PutResults :
       /\ reports' = Append(reports, ReportBody(TRUE, put))
       /\ IF ReportReqPanics(put)
          THEN /\ crashed' = TRUE
               /\ UNCHANGED << pcReport, waitChannel >>
          ELSE /\ Len(waitChannel) < ChanCap
               /\ waitChannel' = Append(waitChannel, "done")
               /\ pcReport' = "select"
               /\ UNCHANGED crashed
  /\ UNCHANGED << pcMain, task, tasksStarted, endingChannel, spawnWarner,
                  executedCmdsLen, trackErr, elapsed, currentTime, emitted >>
  /\ UNCHANGED execVars
  /\ UNCHANGED << calls, agentVars >>

\* reportReq(w, task, serverEndPoint); channels[1] <- "done"; return
ReportFinal ==
  /\ ~crashed /\ pcReport = "finalReport"
  /\ \E put \in PutResults :
       /\ reports' = Append(reports, ReportBody(TRUE, put))
       /\ IF ReportReqPanics(put)
          THEN /\ crashed' = TRUE
               /\ UNCHANGED << pcReport, waitChannel >>
          ELSE /\ Len(waitChannel) < ChanCap
               /\ waitChannel' = Append(waitChannel, "done")
               /\ pcReport' = "done"
               /\ UNCHANGED crashed
  /\ UNCHANGED << pcMain, task, tasksStarted, endingChannel, spawnWarner,
                  executedCmdsLen, trackErr, elapsed, currentTime, emitted >>
  /\ UNCHANGED execVars
  /\ UNCHANGED << calls, agentVars >>

\* ---------------------------------------------------------- specification
Next ==
  \/ ExecTask
  \/ InitCheckImage
  \/ InitPull
  \/ InitCreate
  \/ InitStart
  \/ InitMkdir
  \/ InitCopy
  \/ ExecuteSend
  \/ ScriptAppend
  \/ ExecuteRun
  \/ ExecuteStop
  \/ ExecuteRemove
  \/ SendEnding
  \/ WaitReport
  \/ ReportWaitSpawn
  \/ Tick
  \/ ReportDefault
  \/ ReportProgress
  \/ ReportSleep
  \/ ReportPeriodic
  \/ ReportDone
  \/ ReportFinal

Spec == Init /\ [][Next]_vars

\* The steps of the goroutine that runs ExecTask once a task is started, and
\* those of the report goroutine; the Go scheduler runs each goroutine that
\* can take a step.
MainNext ==
  \/ InitCheckImage \/ InitPull \/ InitCreate \/ InitStart \/ InitMkdir \/ InitCopy
  \/ ExecuteSend \/ ExecuteRun \/ ExecuteStop \/ ExecuteRemove
  \/ SendEnding \/ WaitReport

ReporterNext ==
  \/ ReportWaitSpawn \/ ReportDefault \/ ReportProgress \/ ReportSleep
  \/ ReportPeriodic \/ ReportDone \/ ReportFinal

FairSpec == Spec /\ WF_vars(MainNext) /\ WF_vars(ReporterNext)

\* ------------------------------------------------- Join, GetTask, config
lifecycleVars == << pcMain, pcReport, task, tasksStarted, container, Cid, ecExists,
                    ecFile, ecWrites, endingChannel, waitChannel, spawnWarner,
                    executedCmdsLen, trackErr, elapsed, currentTime, emitted, reports,
                    calls, crashed >>

\* Configuration files: the one the bootstrap script writes
\* ({"vcpu":..,"ram":..,"id":"..","queue_id":..}), serializations of Worker
\* records with and without a queue and a token, and a file that is no JSON.
ConfDocs ==
  { << NumMember("vcpu", 1), NumMember("ram", 3), StrMember("id", <<"w">>),
       NumMember("queue_id", 7) >>,
    Marshal([Vcpu |-> 1, Ram |-> 3, Token |-> <<>>, Id |-> <<"w">>, QueueId |-> <<>>]),
    Marshal([Vcpu |-> 1, Ram |-> 3, Token |-> <<>>, Id |-> <<"w">>, QueueId |-> <<"5">>]),
    Marshal([Vcpu |-> 1, Ram |-> 3, Token |-> TestToken, Id |-> <<"w">>, QueueId |-> <<"5">>]),
    Garbage }

\* The bodies a dispatcher answers a join with: no JSON, an empty object,
\* the token alone, the token with a queue_id string (the shape the test
\* builds), the token with a queue_id number.
JoinBodies ==
  {Garbage, <<>>}
  \cup { <<StrMember(TokenKey, Escape(t))>> : t \in Tokens }
  \cup { <<StrMember(TokenKey, Escape(t)), StrMember("queue_id", Decimal(192038))>> :
           t \in {TestToken, QueueToken(7)} }
  \cup { <<StrMember(TokenKey, Escape(QueueToken(7))), NumMember("queue_id", 7)>> }

JoinResponses ==
  { [StatusCode |-> sc, Body |-> b] : sc \in {StatusCreated, StatusError}, b \in JoinBodies }

\* Join: the signed POST of the worker record, fatal when it fails, then
\* HandleJoinResponse on the response.
Join ==
  /\ ~fatal
  /\ \/ /\ fatal' = TRUE
        /\ joinResp' = <<>>
        /\ UNCHANGED worker
     \/ \E response \in JoinResponses :
          /\ joinResp' = <<response>>
          /\ fatal' = HandleJoinResponse(response, worker).fatal
          /\ worker' = HandleJoinResponse(response, worker).w
  /\ UNCHANGED << requests, getResult, cfgIn, cfgOut >>
  /\ UNCHANGED lifecycleVars

\* GetTask: an error at once when w.QueueId is empty; otherwise the GET with
\* the token header, which fails, answers something that is no task, or
\* answers a task.
GetTask ==
  /\ ~fatal
  /\ Len(requests) < MaxRequests
  /\ IF worker.QueueId = <<>>
     THEN /\ getResult' = << [err |-> TRUE, task |-> FALSE, sent |-> FALSE,
                              QueueId |-> worker.QueueId, Token |-> worker.Token] >>
          /\ UNCHANGED requests
     ELSE /\ requests' = Append(requests, [Id |-> worker.Id, QueueId |-> worker.QueueId,
                                           Token |-> worker.Token])
          /\ \E res \in {"get_err", "bad_json", "task"} :
               getResult' = << [err |-> res # "task", task |-> res = "task", sent |-> TRUE,
                                QueueId |-> worker.QueueId, Token |-> worker.Token] >>
  /\ UNCHANGED << worker, fatal, joinResp, cfgIn, cfgOut >>
  /\ UNCHANGED lifecycleVars

InitAgent ==
  /\ LifecycleIdle
  /\ AgentIdle
  /\ worker \in { ParseWorkerConfiguration(doc) : doc \in ConfDocs }
  /\ cfgIn = <<>>
  /\ cfgOut = <<>>

NextAgent ==
  \/ Join
  \/ GetTask

SpecAgent == InitAgent /\ [][NextAgent]_vars

\* The strings of the records whose serialization is parsed back: plain
\* ones and ones with the characters the encoder escapes.
FieldStrings == { <<>>, <<"a">>, <<"\"", "b">>, <<"\\", "u">>, <<"<">> }

WorkerRecords ==
  { [Vcpu |-> v, Ram |-> r, Token |-> t, Id |-> i, QueueId |-> q] :
      v \in {0, 1}, r \in {0, 3}, t \in FieldStrings, i \in FieldStrings, q \in FieldStrings }

\* TestParseWorkerConfiguration's exercise: the record is serialized and
\* the bytes are given to ParseWorkerConfiguration.
RoundTrip ==
  /\ cfgIn # <<>> /\ cfgOut = <<>>
  /\ cfgOut' = << ParseWorkerConfiguration(Marshal(cfgIn[1])) >>
  /\ UNCHANGED << worker, fatal, joinResp, requests, getResult, cfgIn >>
  /\ UNCHANGED lifecycleVars

InitConfig ==
  /\ LifecycleIdle
  /\ AgentIdle
  /\ worker = ZeroWorker
  /\ cfgIn \in { <<w>> : w \in WorkerRecords }
  /\ cfgOut = <<>>

NextConfig == RoundTrip

SpecConfig == InitConfig /\ [][NextConfig]_vars

\* ------------------------------------------------------------ properties
ExecuteReturned == pcMain \in {"sendEnding", "waitReport", "returned"}

TerminalReports == { i \in 1..Len(reports) : reports[i].terminal }

LastReport == reports[Len(reports)]

\* C1: every call of Execute emits exactly one terminal state, Finished or
\* Failed, on its state channel: never two, and one once it has returned,
\* whichever step failed.
C1_ExactlyOneTerminalState ==
  /\ Len(emitted) <= 1
  /\ \A i \in 1..Len(emitted) : emitted[i] \in {TaskFinished, TaskFailed}
  /\ ExecuteReturned => Len(emitted) = 1
  /\ (tasksStarted > 0 /\ ~ExecuteReturned) => emitted = <<>>

\* Execute returned after utils.Exec of the script failed in run.
C1_Witness ==
  /\ ExecuteReturned
  /\ emitted = <<TaskFailed>>
  /\ Cid = "cid"
  /\ ecWrites > 0

\* C2: when ExecTask has returned, the last report sent for the task carries
\* a state in {Finished, Failed}, and progress 100 if that state is Finished.
C2_LastReportTerminalState ==
  pcMain = "returned" =>
    /\ reports # <<>>
    /\ LastReport.State \in {TaskFinished, TaskFailed}
    /\ LastReport.State = TaskFinished => LastReport.Progress = 100

\* C3: the progress values of one task's reports, periodic then terminal,
\* are non-decreasing and lie in 0..100.
C3_ProgressMonotoneBounded ==
  /\ \A i \in 1..Len(reports) : reports[i].Progress \in 0..100
  /\ \A i \in 1..Len(reports) : \A j \in i..Len(reports) :
       reports[i].Progress <= reports[j].Progress

C5_DriverFailureReportsFailed ==
  (pcMain = "returned" /\ emitted = <<TaskFailed>>) =>
    /\ task.State = TaskFailed
    /\ \E i \in TerminalReports : reports[i].State = TaskFailed

\* C6: the terminal transition sets progress to 100 when the Executor ended
\* Finished and leaves it at the last probed value when it ended Failed.
C6_TerminalProgress ==
  [][(pcReport = "select" /\ pcReport' = "finalReport") =>
       task'.Progress = IF emitted = <<TaskFinished>> THEN 100 ELSE task.Progress]_vars

\* C7: a tick on which Track returned an error leaves task.Progress at the
\* value it had before the tick.
C7_TrackErrorKeepsProgress ==
  [][(pcReport = "progress" /\ trackErr /\ pcReport' \in {"sleep", "report"}) =>
       task'.Progress = task.Progress]_vars

\* C8: a task with an empty command list does not crash the engine on the
\* division by the command count, and gets exactly one report, with
\* progress 100 and state Finished.
C8_EmptyCommands ==
  (tasksStarted > 0 /\ Len(task.Commands) = 0) =>
    /\ ~(crashed /\ pcReport = "progress")
    /\ pcMain = "returned" =>
         /\ Len(reports) = 1
         /\ reports[1].Progress = 100
         /\ reports[1].State = TaskFinished

\* C9: a report whose transmission failed, by a transport error or by a
\* status other than 200, does not crash the report routine.
C9_ReportFailureOnlyLogged ==
  (reports # <<>> /\ (LastReport.err \/ LastReport.status # StatusOK)) =>
    ~(crashed /\ pcReport \in {"report", "finalReport"})

\* C10: after a tick on which Track succeeded with count c, for n >= 1
\* commands, task.Progress = min(100, floor(c * 100 / n)).
C10_ProgressFormula ==
  (pcReport \in {"sleep", "report"} /\ ~trackErr) =>
    task.Progress = Min(100, (executedCmdsLen * 100) \div Len(task.Commands))

\* C11: ExecTask has returned only when the terminal report was sent and
\* the report routine has finished, and a task is started only when no
\* other task is executing or being reported.
C11_ReturnAfterTerminalReport ==
  /\ [](pcMain = "returned" => (pcReport = "done" /\ TerminalReports # {}))
  /\ [][(tasksStarted' # tasksStarted) =>
          (pcMain \in {"idle", "returned"} /\ pcReport \in {"none", "done"})]_vars

\* A second task was started after the first returned, and returned too.
C11_Witness ==
  /\ tasksStarted = 2
  /\ pcMain = "returned"
  /\ pcReport = "done"

InitSucceeded == \E i \in 1..Len(calls) : calls[i].op = "Copy" /\ calls[i].ok

ContainerCreated == \E i \in 1..Len(calls) : calls[i].op = "CreateContainer" /\ calls[i].ok

\* C17: when Execute has returned and had created a container, it has
\* called StopContainer and then RemoveContainer on it.
C17_CreatedContainerRemoved ==
  (ExecuteReturned /\ ContainerCreated) =>
    \E i \in 1..Len(calls) : \E j \in (i + 1)..Len(calls) :
      calls[i].op = "StopContainer" /\ calls[j].op = "RemoveContainer"

\* The place of each driver call in the sequence init, send, run, teardown.
CallOrder ==
  [CheckImage |-> 1, Pull |-> 2, CreateContainer |-> 3, StartContainer |-> 4, Mkdir |-> 5,
   Copy |-> 6, Write |-> 7, Run |-> 8, StopContainer |-> 9, RemoveContainer |-> 10]

Rank(op) == CallOrder[op]

CalledOk(op) == \E i \in 1..Len(calls) : calls[i].op = op /\ calls[i].ok

WasCalled(op) == \E i \in 1..Len(calls) : calls[i].op = op

\* C18: the driver calls of one Execute follow the order init, send, run,
\* teardown; send runs only after init succeeded, run only after send
\* succeeded, teardown only after run succeeded; a failed step of init,
\* send or run is the last call; Finished is emitted only after run
\* succeeded and StopContainer then RemoveContainer were called.
C18_StepOrder ==
  /\ \A i \in 1..(Len(calls) - 1) : Rank(calls[i].op) < Rank(calls[i + 1].op)
  /\ \A i \in 1..Len(calls) :
       (~calls[i].ok /\ calls[i].op \notin {"StopContainer", "RemoveContainer"}) => i = Len(calls)
  /\ WasCalled("Write") =>
       (CalledOk("CheckImage") /\ CalledOk("CreateContainer") /\ CalledOk("StartContainer")
        /\ CalledOk("Mkdir") /\ CalledOk("Copy"))
  /\ WasCalled("Run") => CalledOk("Write")
  /\ WasCalled("StopContainer") => CalledOk("Run")
  /\ WasCalled("RemoveContainer") => WasCalled("StopContainer")
  /\ \A i \in 1..Len(emitted) :
       emitted[i] = TaskFinished =>
         (CalledOk("Run") /\ WasCalled("StopContainer") /\ WasCalled("RemoveContainer"))

\* Execute ran all four steps and emitted Finished.
C18_Witness ==
  /\ emitted = <<TaskFinished>>
  /\ WasCalled("Pull")
  /\ calls[Len(calls)].op = "RemoveContainer"

\* C19: the report routine neither probes nor reports while it waits on the
\* spawn-warner channel, and when it has probed, the executor had made the
\* execution container ready (init succeeded).
C19_TrackAfterContainerReady ==
  /\ pcReport = "waitSpawn" => (reports = <<>> /\ executedCmdsLen = 0 /\ ~trackErr)
  /\ pcReport = "progress" => InitSucceeded

\* C20: under fair scheduling of the two goroutines, once Execute has
\* returned ExecTask eventually returns.
C20_ExecTaskReturns == ExecuteReturned ~> (pcMain = "returned")

\* The join response the claims call successful: status 201, a body that
\* parses, with a token that parses to claims holding a QueueId.
JoinToken(response) == ValueOf(response.Body, TokenKey)

JoinAccepted(response) ==
  /\ response.StatusCode = StatusCreated
  /\ StringMapOk(response.Body)
  /\ HasKey(response.Body, TokenKey)
  /\ ~parseToken(JoinToken(response)).err
  /\ parseToken(JoinToken(response)).claims # {}

\* C12: after HandleJoinResponse on a 201 response whose token T parses to
\* claims with QueueId = N, the worker's Token is T and its QueueId is N.
C12_JoinSetsTokenAndQueue ==
  (joinResp # <<>> /\ JoinAccepted(joinResp[1])) =>
    /\ ~fatal
    /\ worker.Token = JoinToken(joinResp[1])
    /\ \A n \in parseToken(JoinToken(joinResp[1])).claims : worker.QueueId = Decimal(n)

\* C13: after HandleJoinResponse on a 201 response whose body carries
\* arrebol-worker-token = T and queue_id = Q, there was no fatal error and
\* the worker has Token = T and QueueId = Q.
C13_JoinBodyQueueId ==
  (/\ joinResp # <<>>
   /\ joinResp[1].StatusCode = StatusCreated
   /\ StringMapOk(joinResp[1].Body)
   /\ HasKey(joinResp[1].Body, TokenKey)
   /\ HasKey(joinResp[1].Body, "queue_id")) =>
    /\ ~fatal
    /\ worker.Token = JoinToken(joinResp[1])
    /\ worker.QueueId = ValueOf(joinResp[1].Body, "queue_id")

C15_FetchOnlyWhenJoined ==
  /\ \A i \in 1..Len(requests) : requests[i].QueueId # <<>> /\ requests[i].Token # <<>>
  /\ \A i \in 1..Len(getResult) :
       (getResult[i].QueueId = <<>> \/ getResult[i].Token = <<>>) =>
         (getResult[i].err /\ ~getResult[i].task /\ ~getResult[i].sent)

====
